---- MODULE Spec2Model ----
(***************************************************************************)
(* Box geometry and greedy non-maximum suppression of                      *)
(* deepdoctection/extern/tp/tpfrcnn/utils/np_box_ops.py.                   *)
(*                                                                         *)
(* A state is one call of the library: non_max_suppression(boxes,          *)
(* overlap_thresh) run iteration by iteration, or iou(boxes1, boxes2).     *)
(* Coordinates are integers; a quotient p / q of the code is kept as the   *)
(* pair <<p, q>> and compared the way IEEE arithmetic compares the         *)
(* quotient (q = 0 gives inf, -inf or nan).                                *)
(***************************************************************************)
EXTENDS Integers, Sequences, FiniteSets

VARIABLES pc, boxes, overlap_thresh, idxs, pick, overlap, suppressed_by,
          boxes1, boxes2, iou_out

vars == <<pc, boxes, overlap_thresh, idxs, pick, overlap, suppressed_by,
          boxes1, boxes2, iou_out>>

(***************************************************************************)
(* Bounds of the inputs.                                                   *)
(***************************************************************************)
MaxBoxes == 2

MaxCoord == 1

MaxIouCoord == 3

Coords == 0 .. MaxCoord

\* The boxes (x1, y1, x2, y2) given to non_max_suppression.  The y interval
\* is any pair with y1 up to MaxCoord + 1, so that the +1 height
\* y2 - y1 + 1 is positive, zero or negative (malformed input is accepted by
\* the code); the x interval starts at 0 and has a positive +1 width.
Box == {0} \X (0 .. MaxCoord + 1) \X Coords \X Coords

\* The boxes (ymin, xmin, ymax, xmax) given to iou: any four coordinates.
IouCoords == 0 .. MaxIouCoord

IouBox == IouCoords \X IouCoords \X IouCoords \X IouCoords

\* overlap_thresh as a fraction <<numerator, denominator>>: -1/2, 0, 1/2, 1.
Thresholds == {<<-1, 2>>, <<0, 1>>, <<1, 2>>, <<1, 1>>}

(***************************************************************************)
(* numpy helpers.                                                          *)
(***************************************************************************)
maximum(a, b) == IF a >= b THEN a ELSE b

minimum(a, b) == IF a <= b THEN a ELSE b

(***************************************************************************)
(* BoxGeometry: boxes are (ymin, xmin, ymax, xmax).                        *)
(***************************************************************************)
area(b) == (b[3] - b[1]) * (b[4] - b[2])

\* Variant of intersect_heights without the clamp at zero.
intersect_heights_unclamped(b1, b2) ==
    minimum(b1[3], b2[3]) - maximum(b1[1], b2[1])

intersect_heights(b1, b2) ==
    maximum(0, minimum(b1[3], b2[3]) - maximum(b1[1], b2[1]))

intersect_widths(b1, b2) ==
    maximum(0, minimum(b1[4], b2[4]) - maximum(b1[2], b2[2]))

intersection(b1, b2) == intersect_heights(b1, b2) * intersect_widths(b1, b2)

union(b1, b2) == area(b1) + area(b2) - intersection(b1, b2)

\* The N x M matrix of quotients intersect / union.
iou(bs1, bs2) ==
    [i \in DOMAIN bs1 |->
        [j \in DOMAIN bs2 |->
            <<intersection(bs1[i], bs2[j]), union(bs1[i], bs2[j])>>]]

(***************************************************************************)
(* non_max_suppression: boxes are (x1, y1, x2, y2), indexed from 0.        *)
(***************************************************************************)
x_1(b) == b[1]

y_1(b) == b[2]

x_2(b) == b[3]

y_2(b) == b[4]

\* Variant of nms_area with the convention of area(): no +1.
nms_area_exclusive(b) == (x_2(b) - x_1(b)) * (y_2(b) - y_1(b))

\* area = (x_2 - x_1 + 1) * (y_2 - y_1 + 1), the local array of the function.
nms_area(b) == (x_2(b) - x_1(b) + 1) * (y_2(b) - y_1(b) + 1)

Perms(S) ==
    {s \in [1 .. Cardinality(S) -> S] :
        \A k, l \in 1 .. Cardinality(S) : k # l => s[k] # s[l]}

\* np.argsort(y_2) with the default kind: the orders of the indices that are
\* ascending in y_2.  The default sort is not a stable sort, so the order of
\* indices with equal y_2 is any order.
argsort(bx) ==
    {s \in Perms(DOMAIN bx) :
        \A k \in 1 .. Len(s) - 1 : y_2(bx[s[k]]) <= y_2(bx[s[k + 1]])}

\* Variant of last that takes the first position of the working set.
first_position(ix) == 1

\* last = len(idxs) - 1 is the code's 0-based position; positions of the
\* sequences here start at 1.
last(ix) == Len(ix)

\* Variant of w without the +1 of the inclusive convention.
w_exclusive(bi, bj) ==
    maximum(0, minimum(x_2(bi), x_2(bj)) - maximum(x_1(bi), x_1(bj)))

w(bi, bj) == maximum(0, minimum(x_2(bi), x_2(bj)) - maximum(x_1(bi), x_1(bj)) + 1)

\* Variant of h without the clamp at zero.
h_unclamped(bi, bj) ==
    minimum(y_2(bi), y_2(bj)) - maximum(y_1(bi), y_1(bj)) + 1

h(bi, bj) == maximum(0, minimum(y_2(bi), y_2(bj)) - maximum(y_1(bi), y_1(bj)) + 1)

\* Variant of overlap_entry that divides by the area of the picked box.
overlap_entry_by_picked_area(bi, bj) == <<w(bi, bj) * h(bi, bj), nms_area(bi)>>

\* One entry of overlap = (w * h) / area[idxs[:last]], for picked box bi and
\* candidate bj.
overlap_entry(bi, bj) == <<w(bi, bj) * h(bi, bj), nms_area(bj)>>

\* The array overlap of one iteration, over the positions before last.
overlap_of(bx, ix) ==
    [k \in 1 .. last(ix) - 1 |-> overlap_entry(bx[ix[last(ix)]], bx[ix[k]])]

\* o > t for a quotient o = <<p, q>> and a threshold t = <<n, d>> with d > 0:
\* p / 0 is inf (p > 0), nan (p = 0) or -inf (p < 0), and nan > t is false.
gt(o, t) ==
    IF o[2] > 0 THEN o[1] * t[2] > t[1] * o[2]
    ELSE IF o[2] < 0 THEN o[1] * t[2] < t[1] * o[2]
    ELSE o[1] > 0

\* Variant of where_gt with >= in place of >.
where_ge(ov, t) ==
    {k \in DOMAIN ov :
        \/ gt(ov[k], t)
        \/ ov[k][2] # 0 /\ ov[k][1] * t[2] = t[1] * ov[k][2]}

\* np.where(overlap > overlap_thresh)[0]
where_gt(ov, t) == {k \in DOMAIN ov : gt(ov[k], t)}

RECURSIVE np_delete(_, _)
\* np.delete(s, positions): s without the given positions, order kept.
np_delete(s, D) ==
    IF s = <<>> THEN <<>>
    ELSE LET front == np_delete(SubSeq(s, 1, Len(s) - 1), D)
         IN  IF Len(s) \in D THEN front ELSE Append(front, s[Len(s)])

\* Variant of delete_positions that leaves the picked position in place.
delete_positions_without_last(ix, ov, t) == where_gt(ov, t)

\* The positions removed in one iteration: [last] and the suppressed ones.
delete_positions(ix, ov, t) == {last(ix)} \cup where_gt(ov, t)

(***************************************************************************)
(* Initial states: a call of non_max_suppression or a call of iou.         *)
(***************************************************************************)
InitNms ==
    /\ pc = "nms_start"
    /\ \E n \in 0 .. MaxBoxes : boxes \in [0 .. n - 1 -> Box]
    /\ overlap_thresh \in Thresholds
    /\ idxs = <<>>
    /\ pick = <<>>
    /\ overlap = <<>>
    /\ suppressed_by = <<>>
    /\ boxes1 = <<>>
    /\ boxes2 = <<>>
    /\ iou_out = <<>>

InitIou ==
    /\ pc = "iou_start"
    /\ boxes = <<>>
    /\ overlap_thresh = <<0, 1>>
    /\ idxs = <<>>
    /\ pick = <<>>
    /\ overlap = <<>>
    /\ suppressed_by = <<>>
    /\ \E b \in IouBox : boxes1 = <<b>>
    /\ \E b \in IouBox : boxes2 = <<b>>
    /\ iou_out = <<>>

Init == InitNms \/ InitIou

(***************************************************************************)
(* Steps of non_max_suppression.                                           *)
(***************************************************************************)
\* if len(boxes) == 0: return []
nms_return_empty ==
    /\ pc = "nms_start"
    /\ DOMAIN boxes = {}
    /\ pc' = "nms_done"
    /\ UNCHANGED <<boxes, overlap_thresh, idxs, pick, overlap, suppressed_by,
                   boxes1, boxes2, iou_out>>

\* pick = []; area = ...; idxs = np.argsort(y_2)
nms_setup ==
    /\ pc = "nms_start"
    /\ DOMAIN boxes # {}
    /\ pick' = <<>>
    /\ idxs' \in argsort(boxes)
    /\ pc' = "nms_loop"
    /\ UNCHANGED <<boxes, overlap_thresh, overlap, suppressed_by,
                   boxes1, boxes2, iou_out>>

\* One iteration of while len(idxs) > 0.
nms_iterate ==
    /\ pc = "nms_loop"
    /\ Len(idxs) > 0
    /\ LET i  == idxs[last(idxs)]
           ov == overlap_of(boxes, idxs)
       IN  /\ pick' = Append(pick, i)
           /\ overlap' = ov
           /\ idxs' = np_delete(idxs, delete_positions(idxs, ov, overlap_thresh))
           /\ suppressed_by' =
                [j \in DOMAIN suppressed_by \cup
                       {idxs[k] : k \in where_gt(ov, overlap_thresh)} |->
                    IF j \in DOMAIN suppressed_by THEN suppressed_by[j] ELSE i]
    /\ UNCHANGED <<pc, boxes, overlap_thresh, boxes1, boxes2, iou_out>>

\* The loop condition fails: return pick.
nms_return ==
    /\ pc = "nms_loop"
    /\ Len(idxs) = 0
    /\ pc' = "nms_done"
    /\ UNCHANGED <<boxes, overlap_thresh, idxs, pick, overlap, suppressed_by,
                   boxes1, boxes2, iou_out>>

(***************************************************************************)
(* iou(boxes1, boxes2).                                                    *)
(***************************************************************************)
iou_call ==
    /\ pc = "iou_start"
    /\ iou_out' = iou(boxes1, boxes2)
    /\ pc' = "iou_done"
    /\ UNCHANGED <<boxes, overlap_thresh, idxs, pick, overlap, suppressed_by,
                   boxes1, boxes2>>

Next ==
    \/ nms_return_empty
    \/ nms_setup
    \/ nms_iterate
    \/ nms_return
    \/ iou_call

Spec == Init /\ [][Next]_vars

\* A call runs to its end: no step of it waits on anything.
FairSpec == Spec /\ WF_vars(Next)

(***************************************************************************)
(* Vocabulary of the properties, written from their statements: the +1     *)
(* width, height, area and intersection of boxes (x1, y1, x2, y2), and the *)
(* exact comparison of intersection / area with the threshold.             *)
(***************************************************************************)
NumBoxes == Cardinality(DOMAIN boxes)

Range(s) == {s[k] : k \in DOMAIN s}

PlusWidth(b) == b[3] - b[1] + 1

PlusHeight(b) == b[4] - b[2] + 1

PlusArea(b) == PlusWidth(b) * PlusHeight(b)

PositiveBox(b) == PlusWidth(b) > 0 /\ PlusHeight(b) > 0

AllPositive == \A k \in DOMAIN boxes : PositiveBox(boxes[k])

PlusInter(a, b) ==
    LET ww == (IF a[3] <= b[3] THEN a[3] ELSE b[3])
                - (IF a[1] >= b[1] THEN a[1] ELSE b[1]) + 1
        hh == (IF a[4] <= b[4] THEN a[4] ELSE b[4])
                - (IF a[2] >= b[2] THEN a[2] ELSE b[2]) + 1
    IN  IF ww > 0 /\ hh > 0 THEN ww * hh ELSE 0

\* PlusInter(a, b) / PlusArea(b) < t, = t, > t for a box b of positive area.
RatioBelow(a, b, t) == PlusInter(a, b) * t[2] < t[1] * PlusArea(b)

RatioAtMost(a, b, t) == PlusInter(a, b) * t[2] <= t[1] * PlusArea(b)

\* PlusInter(a, b) / PlusArea(b) > t, for any box b of non-zero area.
RatioAbove(a, b, t) ==
    \/ PlusArea(b) > 0 /\ PlusInter(a, b) * t[2] > t[1] * PlusArea(b)
    \/ PlusArea(b) < 0 /\ PlusInter(a, b) * t[2] < t[1] * PlusArea(b)

Running == pc \in {"nms_loop", "nms_done"}

Returned == pc = "nms_done"

ThreshBelowOne == overlap_thresh[1] < overlap_thresh[2]

ThreshAtLeastOne == overlap_thresh[1] >= overlap_thresh[2]

AllIdentical == \A k, l \in DOMAIN boxes : boxes[k] = boxes[l]

IsSeqWithoutRepeats(s) == \A k, l \in DOMAIN s : k # l => s[k] # s[l]

(***************************************************************************)
(* C1                                                                      *)
(***************************************************************************)
\* C1 as stated: for boxes of positive +1 width and height, any two returned
\* indices a, b with a picked before b have overlap ratio
\* PlusInter(a, b) / PlusArea(b) strictly below overlap_thresh.
C1_PairwiseBelow ==
    (Returned /\ AllPositive) =>
        \A p, q \in DOMAIN pick :
            p < q => RatioBelow(boxes[pick[p]], boxes[pick[q]], overlap_thresh)

\* C1 as amended: for boxes of positive +1 width and height, any two picked
\* indices a, b with a picked before b have overlap ratio
\* PlusInter(a, b) / PlusArea(b) at most overlap_thresh (a candidate is
\* removed only when its ratio is greater than the threshold).
C1_PairwiseAtMost ==
    (Running /\ AllPositive) =>
        \A p, q \in DOMAIN pick :
            p < q => RatioAtMost(boxes[pick[p]], boxes[pick[q]], overlap_thresh)

C1_Witness ==
    /\ Returned
    /\ AllPositive
    /\ Len(pick) >= 2
    /\ PlusInter(boxes[pick[1]], boxes[pick[2]]) > 0

(***************************************************************************)
(* C2                                                                      *)
(***************************************************************************)
\* C2: the returned subset is maximal.  Every index that is not returned
\* was removed in the iteration of a returned index i, its overlap ratio
\* with box i is greater than overlap_thresh and its y2 is not larger than
\* the y2 of i; with overlap_thresh >= 0 a box that overlaps no other box
\* is returned.
C2_Maximal ==
    Returned =>
        /\ \A j \in DOMAIN boxes \ Range(pick) :
              /\ j \in DOMAIN suppressed_by
              /\ suppressed_by[j] \in Range(pick)
              /\ RatioAbove(boxes[suppressed_by[j]], boxes[j], overlap_thresh)
              /\ y_2(boxes[j]) <= y_2(boxes[suppressed_by[j]])
        /\ \A j \in DOMAIN boxes :
              (/\ overlap_thresh[1] >= 0
               /\ \A k \in DOMAIN boxes \ {j} : PlusInter(boxes[k], boxes[j]) = 0)
              => j \in Range(pick)

C2_Witness ==
    /\ Returned
    /\ NumBoxes >= 2
    /\ DOMAIN suppressed_by # {}
    /\ overlap_thresh[1] >= 0

C4_IdenticalBoxes ==
    (Returned /\ NumBoxes >= 1 /\ AllIdentical /\ AllPositive /\ ThreshBelowOne) =>
        /\ Len(pick) = 1
        /\ \A j \in DOMAIN boxes \ {pick[1]} :
              j \in DOMAIN suppressed_by /\ suppressed_by[j] = pick[1]

C4_Witness ==
    /\ Returned
    /\ NumBoxes >= 2
    /\ AllIdentical
    /\ AllPositive
    /\ ThreshBelowOne
    /\ Len(pick) = 1

(***************************************************************************)
(* C5                                                                      *)
(***************************************************************************)
\* C5: the y2 values along the picked list are non-increasing, the first
\* picked index is a box with the largest y2 of the input, and the working
\* set stays sorted ascending by y2.
C5_PickOrder ==
    Running =>
        /\ \A p, q \in DOMAIN pick :
              p < q => y_2(boxes[pick[p]]) >= y_2(boxes[pick[q]])
        /\ pick # <<>> =>
              \A k \in DOMAIN boxes : y_2(boxes[k]) <= y_2(boxes[pick[1]])
        /\ \A k, l \in DOMAIN idxs :
              k < l => y_2(boxes[idxs[k]]) <= y_2(boxes[idxs[l]])

C5_Witness ==
    /\ Returned
    /\ Len(pick) >= 2
    /\ y_2(boxes[pick[1]]) > y_2(boxes[pick[2]])
    /\ pick[1] < pick[2]

(***************************************************************************)
(* C6                                                                      *)
(***************************************************************************)
PositiveArea(b) == b[3] > b[1] /\ b[4] > b[2]

Disjoint(a, b) ==
    \/ a[3] <= b[1]
    \/ b[3] <= a[1]
    \/ a[4] <= b[2]
    \/ b[4] <= a[2]

\* C6: for boxes (ymin, xmin, ymax, xmax) with ymax > ymin and xmax > xmin,
\* iou = intersect / union has 0 <= intersect <= union and union > 0, so it
\* lies in [0, 1]; the intersection is at most either area; identical boxes
\* give 1 (intersect = union) and disjoint boxes give 0 (intersect = 0).
C6_IouBounded ==
    pc = "iou_done" =>
        \A i \in DOMAIN boxes1 : \A j \in DOMAIN boxes2 :
            (PositiveArea(boxes1[i]) /\ PositiveArea(boxes2[j])) =>
                LET I  == iou_out[i][j][1]
                    U  == iou_out[i][j][2]
                    a1 == (boxes1[i][3] - boxes1[i][1]) * (boxes1[i][4] - boxes1[i][2])
                    a2 == (boxes2[j][3] - boxes2[j][1]) * (boxes2[j][4] - boxes2[j][2])
                IN  /\ 0 <= I
                    /\ I <= a1
                    /\ I <= a2
                    /\ U > 0
                    /\ I <= U
                    /\ boxes1[i] = boxes2[j] => I = U
                    /\ Disjoint(boxes1[i], boxes2[j]) => I = 0

C6_Witness ==
    /\ pc = "iou_done"
    /\ PositiveArea(boxes1[1])
    /\ PositiveArea(boxes2[1])
    /\ iou_out[1][1][1] > 0
    /\ iou_out[1][1][1] < iou_out[1][1][2]

(***************************************************************************)
(* C7                                                                      *)
(***************************************************************************)
C7_Bounded ==
    /\ pc # "nms_start" => Len(pick) <= NumBoxes
    /\ (Returned /\ NumBoxes = 0) => (pick = <<>> /\ idxs = <<>> /\ overlap = <<>>)
    /\ (Returned /\ NumBoxes >= 1) => (Len(pick) >= 1 /\ idxs = <<>>)
    /\ pc = "nms_start" => (DOMAIN boxes = {} \/ argsort(boxes) # {})

C7_Decreases ==
    (pc = "nms_loop" /\ pc' = "nms_loop") =>
        (Len(idxs') < Len(idxs) /\ Len(pick') = Len(pick) + 1)

\* C7: non_max_suppression terminates.  An empty collection returns the
\* empty list without an iteration; otherwise every iteration removes at
\* least the picked index from the working set, no step is ever blocked, and
\* the call ends with an empty working set after at least 1 and at most N
\* iterations.
C7_Terminates ==
    /\ []C7_Bounded
    /\ [][C7_Decreases]_vars

\* Under FairSpec the same is the liveness property that every call returns.
C7_EventuallyReturns == <>(pc \in {"nms_done", "iou_done"})

C7_Witness ==
    /\ Returned
    /\ NumBoxes >= 2
    /\ Len(pick) < NumBoxes

(***************************************************************************)
(* C8                                                                      *)
(***************************************************************************)
\* C8: with overlap_thresh >= 1 and boxes of positive +1 width and height
\* nothing is suppressed: every iteration removes exactly the picked index
\* and all N indices are returned.
C8_NothingSuppressed ==
    (Running /\ ThreshAtLeastOne /\ AllPositive) =>
        /\ Len(pick) + Len(idxs) = NumBoxes
        /\ suppressed_by = <<>>
        /\ Returned => Len(pick) = NumBoxes

C8_Witness ==
    /\ Returned
    /\ ThreshAtLeastOne
    /\ AllPositive
    /\ NumBoxes >= 2
    /\ Len(pick) = NumBoxes
    /\ PlusInter(boxes[0], boxes[1]) = PlusArea(boxes[1])

(***************************************************************************)
(* C9                                                                      *)
(***************************************************************************)
\* C9: the overlap computed for a candidate is never negative, also for
\* malformed boxes: its numerator w * h is >= 0 and is positive only over a
\* positive area; a suppression that involves a box of non-positive +1 width
\* or height happens only through a zero overlap above a negative threshold.
C9_OverlapNotNegative ==
    Running =>
        /\ \A k \in DOMAIN overlap :
              /\ overlap[k][1] >= 0
              /\ overlap[k][1] > 0 => overlap[k][2] > 0
        /\ \A j \in DOMAIN suppressed_by :
              (~PositiveBox(boxes[j]) \/ ~PositiveBox(boxes[suppressed_by[j]]))
                  => overlap_thresh[1] < 0

C9_Witness ==
    /\ Running
    /\ overlap # <<>>
    /\ \E k \in DOMAIN boxes : PlusHeight(boxes[k]) < 0
    /\ \E k \in DOMAIN boxes : PositiveBox(boxes[k])
    /\ overlap_thresh[1] >= 0

(***************************************************************************)
(* C10                                                                     *)
(***************************************************************************)
\* C10: at every iteration the picked list, the working set and the set of
\* suppressed indices are pairwise disjoint and together are the indices
\* 0 .. N-1; the picked list holds valid indices, none twice, and is
\* non-empty at the return when the input is non-empty.
C10_Partition ==
    Running =>
        /\ Range(pick) \cap Range(idxs) = {}
        /\ Range(pick) \cap DOMAIN suppressed_by = {}
        /\ Range(idxs) \cap DOMAIN suppressed_by = {}
        /\ Range(pick) \cup Range(idxs) \cup DOMAIN suppressed_by = 0 .. NumBoxes - 1
        /\ IsSeqWithoutRepeats(pick)
        /\ IsSeqWithoutRepeats(idxs)
        /\ (Returned /\ NumBoxes >= 1) => pick # <<>>

C10_Witness ==
    /\ pc = "nms_loop"
    /\ pick # <<>>
    /\ idxs # <<>>
    /\ DOMAIN suppressed_by = {}

====
